---- MODULE Spec2Model ----
(***************************************************************************)
(* State-machine model of the NIFTY paper-trading engine:                  *)
(*   option_chain.py                  PaperBroker, get_strikes_payload     *)
(*   live_nifty_fourbar_adx_jugaad.py ADXTracker, four_bar_signal, run     *)
(*   dashboard_app.py                 the open-position test on the log    *)
(*                                                                         *)
(* Three specifications share the variables:                               *)
(*   Spec        the strategy loop run(), one action per loop iteration    *)
(*   SpecBroker  a PaperBroker driven by arbitrary enter/exit calls        *)
(*   SpecADX     an ADXTracker driven by arbitrary update calls            *)
(***************************************************************************)
EXTENDS Integers, Sequences, FiniteSets, TLC

VARIABLES
    now,             \* the wall clock, minutes since Monday 00:00 IST
    bars,            \* run(): the bars DataFrame, a sequence of rows
    last_completed,  \* run(): start of the last evaluated bar, or None
    adx,             \* the ADXTracker object: ready, prev
    broker,          \* the PaperBroker object and the lines of its log file
    pc,              \* run(): "running", or "crashed" after an uncaught exception
    ev               \* observation of the last operation: inputs, calls, results

vars == <<now, bars, last_completed, adx, broker, pc, ev>>

----------------------------------------------------------------------------
(* Python's None and optional values: None is <<>>, a value v is <<v>>.    *)

None == <<>>
Some(v) == <<v>>
Get(o) == o[1]

\* Python's `a or b` for an optional a whose values are all truthy.
OrElse(a, b) == IF a # None THEN a ELSE b

Max2(a, b) == IF a >= b THEN a ELSE b
Min2(a, b) == IF a <= b THEN a ELSE b
Abs(a) == IF a >= 0 THEN a ELSE -a

\* dict.update: the keys of extra override those of record.
DictUpdate(record, extra) ==
    [k \in (DOMAIN record) \cup (DOMAIN extra) |->
        IF k \in DOMAIN extra THEN extra[k] ELSE record[k]]

\* What a Python call returned: False, True or a number.
RetFalse == [kind |-> "False"]
RetTrue == [kind |-> "True"]
RetNum(x) == [kind |-> "number", val |-> x]

----------------------------------------------------------------------------
(* PaperBroker (option_chain.py).                                          *)
(* slippage_pct is the fraction SlipNum / SlipDen = 0.001.  Prices passed  *)
(* to enter and exit are whole rupees; every amount the broker stores      *)
(* (capital, fill prices, pnl) is held in units of 1/SlipDen rupee, so     *)
(* that price * slippage_pct is exact.                                     *)

SlipNum == 1
SlipDen == 1000
DefaultLotSize == 50
DefaultInitialCapital == 100000

\* An amount of whole rupees in the broker's unit.
Amt(rupees) == rupees * SlipDen

NSE_LOT_SIZE == [s \in {"NIFTY"} |-> 50]

\* str.upper on the symbols the model uses.
Upper(s) ==
    CASE s = "nifty" -> "NIFTY"
      [] OTHER -> s

get_lot_size(symbol) ==
    IF Upper(symbol) \in DOMAIN NSE_LOT_SIZE
    THEN NSE_LOT_SIZE[Upper(symbol)]
    ELSE DefaultLotSize

\* contract.get("symbol", "NIFTY")
ContractSymbol(contract) ==
    IF "symbol" \in DOMAIN contract THEN contract.symbol ELSE "NIFTY"

PaperBroker(initial_capital) ==
    [ initial_capital |-> Amt(initial_capital),
      capital         |-> Amt(initial_capital),
      position        |-> None,
      open_time       |-> None,
      closed_trades   |-> <<>>,
      log_file        |-> <<>> ]

\* Variant of log_event that writes no line for a rejection.
log_eventSkipsRejected(b, event, message, extra, clock) ==
    LET record == [ event   |-> event,
                    message |-> message,
                    capital |-> b.capital,
                    time    |-> clock ]
        line == IF extra # None THEN DictUpdate(record, Get(extra)) ELSE record
    IN  IF event = "REJECTED" THEN b ELSE [b EXCEPT !.log_file = Append(@, line)]

\* log_event: one record appended to the log file.  An empty extra is falsy.
log_event(b, event, message, extra, clock) ==
    LET record == [ event   |-> event,
                    message |-> message,
                    capital |-> b.capital,
                    time    |-> clock ]
        line == IF extra # None THEN DictUpdate(record, Get(extra)) ELSE record
    IN  [b EXCEPT !.log_file = Append(@, line)]

\* cost = price * qty
EntryCost(price, qty) == Amt(price) * qty

\* Variant of InsufficientCapital that never refuses.
InsufficientCapitalNever(capital, cost) == FALSE

\* Variant of InsufficientCapital that also refuses capital = cost.
InsufficientCapitalLoose(capital, cost) == capital <= cost

\* if self.capital < cost
InsufficientCapital(capital, cost) == capital < cost

\* Variant of EntryFill that fills at the quote.
EntryFillNoSlippage(side, price) == Amt(price)

\* fill_price = price + (slippage_pct*price if side == "LONG" else -slippage_pct*price)
EntryFill(side, price) ==
    Amt(price) + (IF side = "LONG" THEN SlipNum * price ELSE -(SlipNum * price))

\* Variant of ExitFill with the sign pattern of the entry.
ExitFillSameSign(side, price) ==
    Amt(price) + (IF side = "LONG" THEN SlipNum * price ELSE -(SlipNum * price))

\* fill_price = price - (slippage_pct*price if side == "LONG" else -slippage_pct*price)
ExitFill(side, price) ==
    Amt(price) - (IF side = "LONG" THEN SlipNum * price ELSE -(SlipNum * price))

\* pnl of a closed position
TradePnl(side, entry, fill_price, lot) ==
    IF side = "LONG" THEN (fill_price - entry) * lot
                     ELSE (entry - fill_price) * lot

\* Variant of HasPosition that never sees the open position.
HasPositionNever(b) == FALSE

\* self.position is not None
HasPosition(b) == b.position # None

\* PaperBroker.enter: the broker after the call and the value returned.
Enter(b, side, price, contract, timestamp, clock) ==
    IF HasPosition(b)
    THEN [ b |-> log_event(b, "REJECTED", "Already in position", None, clock),
           ret |-> RetFalse ]
    ELSE
    LET lot_size == get_lot_size(ContractSymbol(contract))
        qty == lot_size
        cost == EntryCost(price, qty)
        fill_price == EntryFill(side, price)
        open_time == OrElse(timestamp, Some(clock))
        b1 == [b EXCEPT !.position = Some([ side |-> side, entry |-> fill_price,
                                            qty |-> qty, contract |-> contract ]),
                        !.open_time = open_time,
                        !.capital = @ - cost]
    IN  IF InsufficientCapital(b.capital, cost)
        THEN [ b |-> log_event(b, "REJECTED", "Insufficient capital for trade", None, clock),
               ret |-> RetFalse ]
        ELSE [ b |-> log_event(b1, "OPEN", "Entered",
                         Some([ entry_price |-> fill_price, contract |-> contract,
                                qty |-> qty, capital |-> b1.capital,
                                timestamp |-> Get(open_time) ]), clock),
               ret |-> RetTrue ]

\* PaperBroker.exit: the broker after the call and the value returned.
Exit(b, price, timestamp, reason, clock) ==
    IF b.position = None
    THEN [ b |-> log_event(b, "REJECTED", "No open position to exit", None, clock),
           ret |-> RetFalse ]
    ELSE LET pos == Get(b.position)
             side == pos.side
             lot == pos.qty
             entry == pos.entry
             contract == pos.contract
             fill_price == ExitFill(side, price)
             pnl == TradePnl(side, entry, fill_price, lot)
             b1 == [b EXCEPT !.capital = @ + fill_price * lot]
             trade == [ side |-> side, entry_price |-> entry,
                        exit_price |-> fill_price, qty |-> lot,
                        contract |-> contract, entry_time |-> b.open_time,
                        exit_time |-> Get(OrElse(timestamp, Some(clock))),
                        pnl |-> pnl, capital_post |-> b1.capital,
                        reason |-> reason ]
             b2 == [b1 EXCEPT !.closed_trades = Append(@, trade),
                              !.position = None,
                              !.open_time = None]
         IN  [ b |-> log_event(b2, "CLOSE", "Closed position", Some(trade), clock),
               ret |-> RetNum(pnl) ]

\* sum(trade["pnl"] for trade in trades)
RECURSIVE SumPnl(_)
SumPnl(trades) ==
    IF trades = <<>> THEN 0 ELSE trades[1].pnl + SumPnl(SubSeq(trades, 2, Len(trades)))

\* Variant of summary that counts every line of the log as a trade.
summaryCountsLines(b) ==
    [ initial_capital |-> b.initial_capital,
      current_capital |-> b.capital,
      total_pnl       |-> SumPnl(b.closed_trades),
      num_trades      |-> Len(b.log_file) ]

\* PaperBroker.summary
summary(b) ==
    [ initial_capital |-> b.initial_capital,
      current_capital |-> b.capital,
      total_pnl       |-> SumPnl(b.closed_trades),
      num_trades      |-> Len(b.closed_trades) ]

\* dashboard_app.py: the log shows an open position when OPENs outnumber CLOSEs.
CountEvents(log, event) == Cardinality({i \in DOMAIN log : log[i].event = event})

DashboardShowsOpen(log) == CountEvents(log, "OPEN") > CountEvents(log, "CLOSE")

----------------------------------------------------------------------------
(* ADXTracker (live_nifty_fourbar_adx_jugaad.py).                          *)
(* high, low and close are prices in index points.  The smoothed fields    *)
(* tr_s, pdm_s ("+dm_s"), mdm_s ("-dm_s") and adx are fixed-point numbers  *)
(* in units of 1/Scale; a quotient is rounded down to that resolution.     *)
(* The seed 1e-9 lies below the resolution and is held as TinyTR, the      *)
(* smallest positive amount.                                               *)

Scale == 100
ADX_PERIOD == 14
ADX_THRESHOLD == 20
TinyTR == 1

Fx(points) == points * Scale

\* a / b for fixed-point a, b > 0, as a fixed-point number
FxRatio(a, b) == (a * Scale) \div b

Max3(a, b, c) == Max2(a, Max2(b, c))

ADXTracker(period) == [p |-> period, ready |-> FALSE, prev |-> None]

\* ADXTracker.seed
seed(a, close) ==
    [a EXCEPT !.prev = Some([ close |-> close, high |-> close, low |-> close,
                              tr_s |-> TinyTR, pdm_s |-> 0, mdm_s |-> 0,
                              adx |-> 0 ]),
              !.ready = TRUE]

\* max(high - low, abs(high - prev close), abs(low - prev close))
TrueRange(high, low, prev_close) ==
    Max3(high - low, Abs(high - prev_close), Abs(low - prev_close))

\* Variant of DirectionalMove without the clamp at zero.
DirectionalMoveUnclamped(high, low, prev_high, prev_low) ==
    LET plus_dm == high - prev_high
        minus_dm == prev_low - low
    IN  IF plus_dm < minus_dm
        THEN [plus_dm |-> 0, minus_dm |-> minus_dm]
        ELSE [plus_dm |-> plus_dm, minus_dm |-> 0]

\* the raw +DM and -DM after the tie-break of lines 94-95
DirectionalMove(high, low, prev_high, prev_low) ==
    LET plus_dm == Max2(high - prev_high, 0)
        minus_dm == Max2(prev_low - low, 0)
    IN  IF plus_dm < minus_dm
        THEN [plus_dm |-> 0, minus_dm |-> minus_dm]
        ELSE [plus_dm |-> plus_dm, minus_dm |-> 0]

\* Wilder smoothing: prev - prev/p + raw
Smooth(prev_s, p, raw) == prev_s - (prev_s \div p) + raw

\* 100.0 * (dm_s / tr_s) if tr_s else 0.0
DI(dm_s, tr_s) == IF tr_s # 0 THEN 100 * FxRatio(dm_s, tr_s) ELSE 0

\* 100.0 * (abs(plus_di - minus_di) / (plus_di + minus_di)) if the sum else 0.0
DX(plus_di, minus_di) ==
    IF plus_di + minus_di # 0
    THEN 100 * FxRatio(Abs(plus_di - minus_di), plus_di + minus_di)
    ELSE 0

\* ((prev adx * (p - 1)) + dx) / p if prev adx else dx
SmoothADX(prev_adx, p, dx) ==
    IF prev_adx # 0 THEN ((prev_adx * (p - 1)) + dx) \div p ELSE dx

\* Lines 96-98: the three smoothed sums after a bar of true range tr and
\* directional move dm.
Smoothed(prev, p, tr, dm) ==
    [ tr_s  |-> Smooth(prev.tr_s, p, Fx(tr)),
      pdm_s |-> Smooth(prev.pdm_s, p, Fx(dm.plus_dm)),
      mdm_s |-> Smooth(prev.mdm_s, p, Fx(dm.minus_dm)) ]

\* Lines 99-102: the new adx from the smoothed sums s.
NextADX(prev, p, s) ==
    SmoothADX(prev.adx, p, DX(DI(s.pdm_s, s.tr_s), DI(s.mdm_s, s.tr_s)))

\* Lines 103-104: the state stored and the value returned.
Stored(a1, high, low, close, s, adx_new) ==
    [ a |-> [a1 EXCEPT !.prev = Some([ close |-> close, high |-> high,
                                       low |-> low, tr_s |-> s.tr_s,
                                       pdm_s |-> s.pdm_s, mdm_s |-> s.mdm_s,
                                       adx |-> adx_new ])],
      ret |-> adx_new ]

\* Lines 90-104 on a seeded tracker a1 with previous state prev.
UpdateFrom(a1, prev, high, low, close, s) ==
    Stored(a1, high, low, close, s, NextADX(prev, a1.p, s))

UpdateSeeded(a1, prev, high, low, close) ==
    UpdateFrom(a1, prev, high, low, close,
               Smoothed(prev, a1.p, TrueRange(high, low, prev.close),
                        DirectionalMove(high, low, prev.high, prev.low)))

\* if not self.ready: self.seed(close)
Seeded(a, close) == IF ~a.ready THEN seed(a, close) ELSE a

\* ADXTracker.update: the tracker after the call and the value returned.
\* An unseeded tracker is seeded with close and the update then goes on.
UpdateOn(a1, high, low, close) == UpdateSeeded(a1, Get(a1.prev), high, low, close)

Update(a, high, low, close) == UpdateOn(Seeded(a, close), high, low, close)

----------------------------------------------------------------------------
(* four_bar_signal: the breakout detector over the completed bars.         *)

SeqMax(q) == CHOOSE x \in {q[i] : i \in DOMAIN q} : \A i \in DOMAIN q : q[i] <= x
SeqMin(q) == CHOOSE x \in {q[i] : i \in DOMAIN q} : \A i \in DOMAIN q : q[i] >= x

\* Variant of TailRows that takes the first n rows.
HeadRows(df, n) == SubSeq(df, 1, n)

\* df.tail(n)
TailRows(df, n) == SubSeq(df, Len(df) - n + 1, Len(df))

four_bar_signal(df_15m) ==
    IF Len(df_15m) < 4 THEN None
    ELSE
    LET last4 == TailRows(df_15m, 4)
        c == [i \in 1..4 |-> last4[i].close]
        h == [i \in 1..4 |-> last4[i].high]
        l == [i \in 1..4 |-> last4[i].low]
        inc == \A i \in 2..4 : c[i] > c[i-1]
        dec == \A i \in 2..4 : c[i] < c[i-1]
        box_high == SeqMax(h)
        box_low == SeqMin(l)
    IN  IF inc THEN Some([ dir |-> "LONG", trigger |-> box_high,
                           box_high |-> box_high, box_low |-> box_low ])
        ELSE IF dec THEN Some([ dir |-> "SHORT", trigger |-> box_low,
                                box_high |-> box_high, box_low |-> box_low ])
        ELSE None

----------------------------------------------------------------------------
(* Time helpers.  A timestamp is a number of minutes since Monday 00:00.   *)

MinutesPerDay == 24 * 60
BarMinutes == 15
SESSION_START == <<9, 15>>
SESSION_END == <<15, 30>>

weekday(ts) == (ts \div MinutesPerDay) % 7
hour(ts) == (ts % MinutesPerDay) \div 60
minute(ts) == ts % 60

\* tuple comparison (h1, m1) <= (h2, m2)
TupleLE(a, b) == a[1] < b[1] \/ (a[1] = b[1] /\ a[2] <= b[2])

\* Variant of in_session that is open at all times.
in_sessionAlways(ts) == TRUE

in_session(ts) ==
    /\ weekday(ts) < 5
    /\ TupleLE(SESSION_START, <<hour(ts), minute(ts)>>)
    /\ TupleLE(<<hour(ts), minute(ts)>>, SESSION_END)

floor_15m(ts) == ts - (minute(ts) % BarMinutes)

----------------------------------------------------------------------------
(* get_strikes_payload (option_chain.py).  A snapshot is what NSELive      *)
(* answers to one lookup: the spot of _get_nifty_spot (0 when there is     *)
(* none) and the chain of _build_chain_lookup, a function from the listed  *)
(* strikes to their CE and PE legs (None for a leg that is not listed).    *)
(* A listed leg carries bidprice and askPrice, each None when the field    *)
(* is missing.                                                             *)

STRIKE_STEP == 50
Expiry == "nearest"

\* int(round(x / step) * step), Python rounding halves to the even integer
round_to_step(x, step) ==
    LET q == x \div step
        r == x % step
    IN  IF 2 * r < step THEN q * step
        ELSE IF 2 * r > step THEN (q + 1) * step
        ELSE IF q % 2 = 0 THEN q * step ELSE (q + 1) * step

\* min(strikes, key=lambda k: abs(k - spot)): the first minimum in sorted order
ClosestStrike(strikes, spot) ==
    CHOOSE k \in strikes :
        \A j \in strikes :
            Abs(k - spot) < Abs(j - spot) \/ (Abs(k - spot) = Abs(j - spot) /\ k <= j)

\* _pick: the leg of one strike and side, or None
pick(chain, side, strike, expiry) ==
    LET leg == IF strike \in DOMAIN chain THEN chain[strike][side] ELSE None
    IN  IF leg = None THEN None
        ELSE Some([ expiry |-> expiry, strike |-> strike, side |-> side,
                    bid |-> Get(leg).bidprice, ask |-> Get(leg).askPrice,
                    symbol |-> "NIFTY" ])

\* [_pick(chain, side, k, expiry) for k in targets if k in strikes], padded
\* with None to five entries
PickList(chain, side, targets, expiry) ==
    LET listed == SelectSeq(targets, LAMBDA k : k \in DOMAIN chain)
        picked == [i \in 1..Len(listed) |-> pick(chain, side, listed[i], expiry)]
    IN  picked \o [i \in 1..(5 - Len(listed)) |-> None]

\* The five labels of one side, from its list of picked legs.
Labelled(list) ==
    [ ATM |-> list[1], ITM1 |-> list[2], ITM2 |-> list[3],
      OTM1 |-> list[4], OTM2 |-> list[5] ]

ce_targets(atm) ==
    << atm, atm - STRIKE_STEP, atm - 2*STRIKE_STEP, atm + STRIKE_STEP, atm + 2*STRIKE_STEP >>

pe_targets(atm) ==
    << atm, atm + STRIKE_STEP, atm + 2*STRIKE_STEP, atm - STRIKE_STEP, atm - 2*STRIKE_STEP >>

\* Lines 88-110: the payload for the chosen atm.
PayloadAt(spot, chain, atm) ==
    [ status |-> "OK", spot |-> spot, expiry |-> Expiry, atm |-> atm,
      calls |-> Labelled(PickList(chain, "CE", ce_targets(atm), Expiry)),
      puts  |-> Labelled(PickList(chain, "PE", pe_targets(atm), Expiry)) ]

\* Lines 84-86: atm, snapped to the closest listed strike
ChooseATM(spot, strikes, atm0) ==
    IF atm0 \notin strikes THEN ClosestStrike(strikes, spot) ELSE atm0

\* The payload returned, [status |-> "ERROR"] without a spot, or
\* [status |-> "RAISES"] when the call raises: min() of an empty strike list.
PayloadOf(spot, chain) ==
    IF spot = 0
    THEN [status |-> "ERROR", reason |-> "No NIFTY spot available"]
    ELSE IF DOMAIN chain = {}
    THEN [status |-> "RAISES"]
    ELSE PayloadAt(spot, chain,
                   ChooseATM(spot, DOMAIN chain, round_to_step(spot, STRIKE_STEP)))

get_strikes_payload(snapshot) == PayloadOf(snapshot.spot, snapshot.chain)

----------------------------------------------------------------------------
(* run(): the strategy loop (live_nifty_fourbar_adx_jugaad.py).            *)

\* A lookup that was not made.
NoLookup == None

\* `leg.get(field, 0) > 0` on a picked leg; a field that is None cannot be
\* compared with 0 and raises TypeError.
QuoteRaises(leg, field) == leg[field] = None
QuotePositive(leg, field) == leg[field] # None /\ Get(leg[field]) > 0

\* strikes[kind]["ATM"] or strikes[kind]["OTM1"]
ChooseLeg(strikes, kind) == OrElse(strikes[kind].ATM, strikes[kind].OTM1)

\* Variant of EntryWanted that ignores the position held.
EntryWantedAnyAccount(b, sig, adx_val) ==
    sig # None /\ adx_val > Fx(ADX_THRESHOLD)

\* Variant of EntryWanted that ignores the trend strength.
EntryWantedAnyTrend(b, sig, adx_val) == sig # None /\ b.position = None

\* if sig and adx_val > ADX_THRESHOLD and broker.position is None
EntryWanted(b, sig, adx_val) ==
    sig # None /\ adx_val > Fx(ADX_THRESHOLD) /\ b.position = None

\* What the entry or exit logic did: the broker afterwards, whether an
\* exception escaped, the payload looked up (if any), the call made (if any).
Outcome(b, crashed, lookup, call) ==
    [b |-> b, crashed |-> crashed, lookup |-> lookup, call |-> call]

\* Line 190: broker.enter with the leg's ask.
EnterAt(b, dir, price, leg, nowi, strikes, r) ==
    Outcome(r.b, FALSE, Some(strikes),
            Some([side |-> dir, price |-> price, contract |-> leg, ret |-> r.ret]))

\* Lines 188-190 for the leg chosen.
EntryWithLeg(b, dir, strikes, oc_leg, nowi) ==
    IF oc_leg = None THEN Outcome(b, FALSE, Some(strikes), None)
    ELSE IF QuoteRaises(Get(oc_leg), "ask") THEN Outcome(b, TRUE, Some(strikes), None)
    ELSE IF ~QuotePositive(Get(oc_leg), "ask") THEN Outcome(b, FALSE, Some(strikes), None)
    ELSE EnterAt(b, dir, Get(Get(oc_leg).ask), Get(oc_leg), nowi, strikes,
                 Enter(b, dir, Get(Get(oc_leg).ask), Get(oc_leg), Some(nowi), nowi))

\* Lines 181-190 for the payload looked up.
EntryWithPayload(b, dir, strikes, nowi) ==
    IF strikes.status = "RAISES" THEN Outcome(b, TRUE, Some(strikes), None)
    ELSE IF strikes.status # "OK" THEN Outcome(b, FALSE, Some(strikes), None)
    ELSE EntryWithLeg(b, dir, strikes,
                      IF dir = "LONG" THEN ChooseLeg(strikes, "calls")
                                      ELSE ChooseLeg(strikes, "puts"),
                      nowi)

\* Lines 179-190, given the snapshot the lookup would fetch.
EntryLogic(b, sig, adx_val, snapshot, nowi) ==
    IF ~EntryWanted(b, sig, adx_val) THEN Outcome(b, FALSE, NoLookup, None)
    ELSE EntryWithPayload(b, Get(sig).dir, get_strikes_payload(snapshot), nowi)

\* Variant of OppositeSignal that closes on any signal.
OppositeSignalAny(sig, side) == sig # None

\* sig and sig["dir"] == "SHORT" for a LONG position, "LONG" otherwise
OppositeSignal(sig, side) ==
    sig # None /\ Get(sig).dir = (IF side = "LONG" THEN "SHORT" ELSE "LONG")

\* Lines 201 and 207: broker.exit with the leg's bid.
ExitAt(price, side, strikes, r) ==
    Outcome(r.b, FALSE, Some(strikes),
            Some([price |-> price, side |-> side, ret |-> r.ret]))

ExitReason(side) ==
    IF side = "LONG" THEN "Opposite signal (SHORT)" ELSE "Opposite signal (LONG)"

\* Lines 197-201 and 203-207 for the leg chosen.
ExitWithLeg(b, sig, side, strikes, oc_leg, nowi) ==
    IF oc_leg = None THEN Outcome(b, FALSE, Some(strikes), None)
    ELSE IF QuoteRaises(Get(oc_leg), "bid") THEN Outcome(b, TRUE, Some(strikes), None)
    ELSE IF ~QuotePositive(Get(oc_leg), "bid") THEN Outcome(b, FALSE, Some(strikes), None)
    ELSE IF ~OppositeSignal(sig, side) THEN Outcome(b, FALSE, Some(strikes), None)
    ELSE ExitAt(Get(Get(oc_leg).bid), side, strikes,
                Exit(b, Get(Get(oc_leg).bid), Some(nowi), Some(ExitReason(side)), nowi))

\* Lines 195-207 for the payload looked up; a payload without "calls" and
\* "puts" raises KeyError.
ExitWithPayload(b, sig, side, kind, strikes, nowi) ==
    IF strikes.status = "RAISES" THEN Outcome(b, TRUE, Some(strikes), None)
    ELSE IF kind \notin DOMAIN strikes THEN Outcome(b, TRUE, Some(strikes), None)
    ELSE ExitWithLeg(b, sig, side, strikes, ChooseLeg(strikes, kind), nowi)

ExitForSide(b, sig, side, snapshot, nowi) ==
    ExitWithPayload(b, sig, side, IF side = "LONG" THEN "calls" ELSE "puts",
                    get_strikes_payload(snapshot), nowi)

\* Lines 193-207, given the snapshot the lookup would fetch.
ExitLogic(b, sig, snapshot, nowi) ==
    IF b.position = None THEN Outcome(b, FALSE, NoLookup, None)
    ELSE ExitForSide(b, sig, Get(b.position).side, snapshot, nowi)

\* Lines 153-162: the quote folded into the bars.
NewBar(slot, spot) ==
    [datetime |-> slot, open |-> spot, high |-> spot, low |-> spot, close |-> spot]

OpensBar(rows, slot) == Len(rows) = 0 \/ rows[Len(rows)].datetime < slot

\* Variant of Aggregate that moves only the close of the open bar.
AggregateCloseOnly(rows, slot, spot) ==
    IF OpensBar(rows, slot)
    THEN Append(rows, NewBar(slot, spot))
    ELSE [rows EXCEPT ![Len(rows)] = [@ EXCEPT !.close = spot]]

Aggregate(rows, slot, spot) ==
    IF OpensBar(rows, slot)
    THEN Append(rows, NewBar(slot, spot))
    ELSE [rows EXCEPT ![Len(rows)] =
            [@ EXCEPT !.high = Max2(@, spot), !.low = Min2(@, spot), !.close = spot]]

\* Variant of Evaluates that evaluates on every quote.
EvaluatesAlways(last, completed) == TRUE

\* if last_completed is None or completed > last_completed
Evaluates(last, completed) == last = None \/ completed > Get(last)

\* Lines 170-173: the (high, low, close) handed to adx.update
ADXInput(tracker, rows, spot) ==
    LET prev_close == IF tracker.ready THEN Get(tracker.prev).close ELSE spot
        last == rows[Len(rows)]
    IN  [ high  |-> Max2(prev_close, last.high),
          low   |-> Min2(prev_close, last.low),
          close |-> last.close ]

\* Variant of CompletedBars that leaves out the bar of the slot completed.
CompletedBarsBefore(rows, completed) == SelectSeq(rows, LAMBDA r : r.datetime < completed)

\* bars[bars["datetime"] <= completed]
CompletedBars(rows, completed) == SelectSeq(rows, LAMBDA r : r.datetime <= completed)

\* What a loop iteration that did no work reports.
IdleTick(kind, step, spot) ==
    [ op |-> "tick", kind |-> kind, step |-> step, spot |-> spot,
      opened |-> FALSE, evaluated |-> FALSE, fed |-> None, adx_val |-> None,
      sig |-> None, lookup1 |-> NoLookup, enter |-> None,
      held |-> None, lookup2 |-> NoLookup, exit |-> None ]

----------------------------------------------------------------------------
(* SpecBroker: a PaperBroker constructed with one of InitialCapitals and   *)
(* then driven by any sequence of at most MaxCalls enter and exit calls.   *)

MaxCalls == 3

Sides == {"LONG", "SHORT"}
CallPrices == {100, 110, 2000}
InitialCapitals == {5000, DefaultInitialCapital}
Contracts == { [symbol |-> "NIFTY", strike |-> 22000, side |-> "CE"],
               [strike |-> 22000, side |-> "PE"] }
CallTimestamps == {None, Some(7)}
CallReasons == {None, Some("t")}

IdleBars == <<>>
IdleADX == [ready |-> FALSE, prev |-> None]

InitBroker ==
    /\ now = 0
    /\ bars = IdleBars
    /\ last_completed = None
    /\ adx = IdleADX
    /\ broker \in {PaperBroker(c) : c \in InitialCapitals}
    /\ pc = "running"
    /\ ev = [op |-> "init"]

CallEnter(side, price, contract, timestamp) ==
    /\ Len(broker.log_file) < MaxCalls
    /\ LET r == Enter(broker, side, price, contract, timestamp, now)
       IN  /\ broker' = r.b
           /\ ev' = [ op |-> "enter", side |-> side, price |-> price,
                      contract |-> contract, timestamp |-> timestamp, ret |-> r.ret ]
    /\ UNCHANGED <<now, bars, last_completed, adx, pc>>

CallExit(price, timestamp, reason) ==
    /\ Len(broker.log_file) < MaxCalls
    /\ LET r == Exit(broker, price, timestamp, reason, now)
       IN  /\ broker' = r.b
           /\ ev' = [ op |-> "exit", price |-> price, timestamp |-> timestamp,
                      reason |-> reason, ret |-> r.ret ]
    /\ UNCHANGED <<now, bars, last_completed, adx, pc>>

\* summary() reads the account and returns; nothing is written.
CallSummary ==
    /\ ev' = [op |-> "summary", ret |-> summary(broker)]
    /\ UNCHANGED <<now, bars, last_completed, adx, broker, pc>>

NextBroker ==
    \/ CallSummary
    \/ \E side \in Sides, price \in CallPrices, contract \in Contracts,
          timestamp \in CallTimestamps :
          CallEnter(side, price, contract, timestamp)
    \/ \E price \in CallPrices, timestamp \in CallTimestamps, reason \in CallReasons :
          CallExit(price, timestamp, reason)

SpecBroker == InitBroker /\ [][NextBroker]_vars

----------------------------------------------------------------------------
(* Properties of PaperBroker, checked under SpecBroker.                    *)

\* The OPEN and CLOSE lines of a log, in order.
OpenCloseEvents(log) ==
    SelectSeq(log, LAMBDA e : e.event \in {"OPEN", "CLOSE"})

LastLine(b) == b.log_file[Len(b.log_file)]

\* b2's log is b1's log followed by exactly one line, of type event.
LogGrewByOne(b1, b2, event) ==
    /\ Len(b2.log_file) = Len(b1.log_file) + 1
    /\ SubSeq(b2.log_file, 1, Len(b1.log_file)) = b1.log_file
    /\ LastLine(b2).event = event

\* C1: after any sequence of enter and exit calls the account holds at most
\* one position, the OPEN and CLOSE lines of the log alternate starting with
\* OPEN, and #OPEN - #CLOSE is 1 exactly when a position is held and 0
\* exactly when the account is flat.
C1_OpenCloseAlternate ==
    LET oc == OpenCloseEvents(broker.log_file)
        diff == CountEvents(broker.log_file, "OPEN")
                    - CountEvents(broker.log_file, "CLOSE")
    IN  /\ Len(broker.position) <= 1
        /\ \A i \in DOMAIN oc :
              oc[i].event = (IF i % 2 = 1 THEN "OPEN" ELSE "CLOSE")
        /\ (diff = 1) <=> (broker.position # None)
        /\ (diff = 0) <=> (broker.position = None)
        /\ DashboardShowsOpen(broker.log_file) <=> (broker.position # None)

C1_Witness ==
    /\ Len(OpenCloseEvents(broker.log_file)) = 3
    /\ broker.position # None
    /\ Len(broker.closed_trades) = 1

\* C2: enter is rejected exactly when a position is open or capital is below
\* price * lot size; a rejected enter returns False, leaves capital, position,
\* open_time and closed_trades unchanged and appends exactly one line, of type
\* REJECTED; with capital equal to price * lot size the enter is accepted.
C2_EnterRejectedExactlyWhen ==
    [][ ev'.op = "enter" =>
          LET need == Amt(ev'.price) * get_lot_size(ContractSymbol(ev'.contract))
              rejected == broker.position # None \/ broker.capital < need
          IN  /\ (ev'.ret = RetFalse) <=> rejected
              /\ (ev'.ret = RetTrue) <=> ~rejected
              /\ rejected =>
                    /\ broker'.capital = broker.capital
                    /\ broker'.position = broker.position
                    /\ broker'.open_time = broker.open_time
                    /\ broker'.closed_trades = broker.closed_trades
                    /\ LogGrewByOne(broker, broker', "REJECTED")
              /\ (broker.position = None /\ broker.capital = need) =>
                    ev'.ret = RetTrue
      ]_vars

C2_Witness ==
    /\ ev.op = "enter"
    /\ ev.ret = RetFalse
    /\ broker.position = None
    /\ broker.capital < Amt(ev.price) * DefaultLotSize
    /\ LastLine(broker).event = "REJECTED"

\* C3: exit on a flat account returns False, leaves closed_trades, capital and
\* position unchanged and appends exactly one line, of type REJECTED.
C3_ExitWhenFlatRejected ==
    [][ (ev'.op = "exit" /\ broker.position = None) =>
          /\ ev'.ret = RetFalse
          /\ broker'.closed_trades = broker.closed_trades
          /\ broker'.capital = broker.capital
          /\ broker'.position = None
          /\ LogGrewByOne(broker, broker', "REJECTED")
      ]_vars

C3_Witness ==
    /\ ev.op = "exit"
    /\ ev.ret = RetFalse
    /\ broker.position = None
    /\ LastLine(broker).event = "REJECTED"
    /\ Len(broker.closed_trades) = 1

\* C4: a successful enter from the flat state opens a position of the lot
\* size of contract.symbol (50 by default) filled at price*(1+slippage) for
\* LONG and price*(1-slippage) for SHORT, debits capital by price*quantity,
\* leaves closed_trades unchanged and appends exactly one line, of type OPEN,
\* whose capital field is the capital after the debit.
C4_EnterOpensPosition ==
    [][ (ev'.op = "enter" /\ ev'.ret = RetTrue) =>
          /\ broker.position = None
          /\ broker'.position # None
          /\ LET pos == Get(broker'.position)
             IN  /\ pos.side = ev'.side
                 /\ pos.contract = ev'.contract
                 /\ pos.qty = 50
                 /\ pos.qty = get_lot_size(ContractSymbol(ev'.contract))
                 /\ ev'.side = "LONG" => pos.entry = ev'.price * (SlipDen + SlipNum)
                 /\ ev'.side = "SHORT" => pos.entry = ev'.price * (SlipDen - SlipNum)
                 /\ broker'.capital = broker.capital - Amt(ev'.price) * pos.qty
                 /\ LastLine(broker').entry_price = pos.entry
                 /\ LastLine(broker').qty = pos.qty
          /\ broker'.open_time # None
          /\ broker'.closed_trades = broker.closed_trades
          /\ LogGrewByOne(broker, broker', "OPEN")
          /\ LastLine(broker').capital = broker'.capital
      ]_vars

C4_Witness ==
    /\ ev.op = "enter"
    /\ ev.ret = RetTrue
    /\ ev.side = "SHORT"
    /\ broker.position # None
    /\ LastLine(broker).event = "OPEN"
    /\ broker.capital < broker.initial_capital

\* C5: a successful exit fills at price*(1-slippage) for LONG and
\* price*(1+slippage) for SHORT, realises pnl = (exit - entry)*qty for LONG
\* and (entry - exit)*qty for SHORT, credits capital by exit fill * qty,
\* appends exactly one ClosedTrade whose capital_post is the new capital,
\* returns the account to flat, appends exactly one CLOSE line and returns
\* the pnl; enter(LONG, 100) then exit(110) with quantity 50 gives entry
\* fill 100.1, exit fill 109.89 and pnl 489.5.
C5_ExitClosesPosition ==
    [][ (ev'.op = "exit" /\ broker.position # None) =>
          LET pos == Get(broker.position)
              fill == IF pos.side = "LONG" THEN ev'.price * (SlipDen - SlipNum)
                                           ELSE ev'.price * (SlipDen + SlipNum)
              pnl == IF pos.side = "LONG" THEN (fill - pos.entry) * pos.qty
                                          ELSE (pos.entry - fill) * pos.qty
              n == Len(broker.closed_trades)
          IN  /\ broker'.capital = broker.capital + fill * pos.qty
              /\ Len(broker'.closed_trades) = n + 1
              /\ SubSeq(broker'.closed_trades, 1, n) = broker.closed_trades
              /\ LET trade == broker'.closed_trades[n + 1]
                 IN  /\ trade.side = pos.side
                     /\ trade.entry_price = pos.entry
                     /\ trade.exit_price = fill
                     /\ trade.qty = pos.qty
                     /\ trade.pnl = pnl
                     /\ trade.capital_post = broker'.capital
              /\ broker'.position = None
              /\ LogGrewByOne(broker, broker', "CLOSE")
              /\ ev'.ret = RetNum(pnl)
              /\ (pos.side = "LONG" /\ pos.entry = 100100 /\ pos.qty = 50
                    /\ ev'.price = 110) =>
                    /\ fill = 109890
                    /\ ev'.ret = RetNum(489500)
      ]_vars

C5_Witness ==
    /\ ev.op = "exit"
    /\ ev.price = 110
    /\ ev.ret = RetNum(489500)
    /\ broker.position = None
    /\ LET trade == broker.closed_trades[Len(broker.closed_trades)]
       IN  /\ trade.side = "LONG"
           /\ trade.entry_price = 100100
           /\ trade.exit_price = 109890
           /\ trade.capital_post = broker.capital

----------------------------------------------------------------------------
(* Spec: run().  Each step is one iteration of the while loop.  The clock  *)
(* starts one minute before the session opens on Monday, a quarter of an   *)
(* hour before it ends, or on Saturday morning; an iteration               *)
(* finds it on the same minute, one bar later or (while fewer than         *)
(* MaxGapBars bars exist) two bars later.  The quote feeds explored are    *)
(* those with one quote per bar, each bar opening within SpotMoves of the  *)
(* last quote, and those whose bars all open at one price, with further    *)
(* quotes inside at most MaxTouched of the bars.                           *)

MaxBars == 8
MaxGapBars == 2
MaxTouched == 3

SpotMoves == {-1, 0, 1}
SpotValues == 1..4
ClockSteps == {0, BarMinutes, 2 * BarMinutes}
StartOfRun == 9 * 60 + 14
LateStart == 15 * 60 + 15
WeekendStart == 5 * MinutesPerDay + 10 * 60
StartsOfRun == {StartOfRun, LateStart, WeekendStart}
ChainSpot == 22010

\* The legs a chain may list.
LegQuotes == { [bidprice |-> Some(100), askPrice |-> Some(110)],
               [bidprice |-> Some(2400), askPrice |-> Some(2500)],
               [bidprice |-> Some(0), askPrice |-> Some(0)],
               [bidprice |-> None, askPrice |-> None] }

\* A snapshot listing the strikes ks, with no leg at the strikes of bare and
\* the legs q elsewhere.
Snapshot(spot, ks, bare, q) ==
    [ spot |-> spot,
      chain |-> [k \in ks |-> IF k \in bare THEN [CE |-> None, PE |-> None]
                                         ELSE [CE |-> Some(q), PE |-> Some(q)]] ]

AllStrikes == {21900, 21950, 22000, 22050, 22100}

ChainSnapshots ==
    {Snapshot(ChainSpot, AllStrikes, {}, q) : q \in LegQuotes}
    \cup { Snapshot(0, AllStrikes, {}, CHOOSE q \in LegQuotes : q.askPrice = Some(110)),
           Snapshot(ChainSpot, {}, {}, CHOOSE q \in LegQuotes : q.askPrice = Some(110)),
           Snapshot(ChainSpot, AllStrikes, {22000},
                    CHOOSE q \in LegQuotes : q.askPrice = Some(110)),
           Snapshot(ChainSpot, {22000, 22050, 22100}, {22000},
                    CHOOSE q \in LegQuotes : q.askPrice = Some(110)),
           Snapshot(ChainSpot, {22050, 22100}, {},
                    CHOOSE q \in LegQuotes : q.askPrice = Some(110)) }

Untouched(row) == row.high = row.open /\ row.low = row.open /\ row.close = row.open
Touched(rows) == Cardinality({i \in DOMAIN rows : ~Untouched(rows[i])})
FlatOpens(rows, spot) == \A i \in DOMAIN rows : rows[i].open = spot

\* The bounds on the feed.
FeedAllows(step, spot) ==
    LET slot == floor_15m(now + step)
        n == Len(bars)
    IN  IF OpensBar(bars, slot)
        THEN /\ n < MaxBars
             /\ (n > 0 /\ slot - bars[n].datetime > BarMinutes) => n < MaxGapBars
             /\ n = 0 => step <= BarMinutes
             /\ IF Touched(bars) > 0
                THEN FlatOpens(bars, spot)
                ELSE n > 0 => (spot - bars[n].close) \in SpotMoves
        ELSE /\ Untouched(bars[n])
             /\ Touched(bars) < MaxTouched
             /\ FlatOpens(bars, bars[1].open)

Init ==
    /\ now \in StartsOfRun
    /\ bars = <<>>
    /\ last_completed = None
    /\ adx = ADXTracker(ADX_PERIOD)
    /\ broker = PaperBroker(DefaultInitialCapital)
    /\ pc = "running"
    /\ ev = [op |-> "init"]

\* Lines 141-143: the session is closed; nothing is done.
TickClosed(is_closed) ==
    /\ pc = "running"
    /\ ~in_session(now) \/ is_closed
    /\ ev' = IdleTick("closed", 0, 0)
    /\ UNCHANGED <<now, bars, last_completed, adx, broker, pc>>

\* Lines 146-149: no usable spot; nothing is done.
TickNoSpot ==
    /\ pc = "running"
    /\ in_session(now)
    /\ ev' = IdleTick("nospot", 0, 0)
    /\ UNCHANGED <<now, bars, last_completed, adx, broker, pc>>

\* Lines 178-211 on an evaluated bar: entry logic, then exit logic.
Decide(base, nowi, in, adx_val, sig) ==
    \E snap1 \in IF EntryWanted(broker, sig, adx_val) THEN ChainSnapshots ELSE {NoLookup} :
    \E e \in {EntryLogic(broker, sig, adx_val, snap1, nowi)} :
    \E snap2 \in IF ~e.crashed /\ e.b.position # None THEN ChainSnapshots ELSE {NoLookup} :
    \E x \in {IF e.crashed THEN Outcome(e.b, TRUE, NoLookup, None)
                           ELSE ExitLogic(e.b, sig, snap2, nowi)} :
        /\ broker' = x.b
        /\ pc' = IF x.crashed THEN "crashed" ELSE "running"
        /\ ev' = [ base EXCEPT !.evaluated = TRUE,
                               !.fed = Some(in),
                               !.adx_val = Some(adx_val),
                               !.sig = sig,
                               !.lookup1 = e.lookup,
                               !.enter = e.call,
                               !.held = IF e.crashed THEN None ELSE e.b.position,
                               !.lookup2 = x.lookup,
                               !.exit = x.call ]

\* Lines 164-176: the completed bar is evaluated.
Evaluate(base, nowi, rows, completed, spot) ==
    \E in \in {ADXInput(adx, rows, spot)} :
    \E u \in {Update(adx, in.high, in.low, in.close)} :
    \E df_comp \in {CompletedBars(rows, completed)} :
    \E sig \in {IF Len(df_comp) >= 4 THEN four_bar_signal(df_comp) ELSE None} :
        /\ last_completed' = Some(completed)
        /\ adx' = u.a
        /\ Decide(base, nowi, in, u.ret, sig)

\* Lines 151-213: a quote in session.
TickQuote(step, spot) ==
    /\ pc = "running"
    /\ in_session(now + step)
    /\ FeedAllows(step, spot)
    /\ \E nowi \in {now + step} :
       \E slot \in {floor_15m(nowi)} :
       \E base \in {[IdleTick("quote", step, spot) EXCEPT !.opened = OpensBar(bars, slot)]} :
           /\ now' = nowi
           /\ bars' = Aggregate(bars, slot, spot)
           /\ IF ~Evaluates(last_completed, slot - BarMinutes)
              THEN /\ ev' = base
                   /\ UNCHANGED <<last_completed, adx, broker, pc>>
              ELSE Evaluate(base, nowi, bars', slot - BarMinutes, spot)

Next ==
    \/ \E is_closed \in BOOLEAN : TickClosed(is_closed)
    \/ TickNoSpot
    \/ \E step \in ClockSteps, spot \in SpotValues : TickQuote(step, spot)

Spec == Init /\ [][Next]_vars

----------------------------------------------------------------------------
(* SpecADX: an ADXTracker constructed with the period of the strategy and  *)
(* then driven by at most MaxUpdates update calls whose high, low and      *)
(* close are any three prices of UpdatePrices.                             *)

MaxUpdates == 3

UpdatePrices == 1..3

InitADX ==
    /\ now = 0
    /\ bars = IdleBars
    /\ last_completed = None
    /\ adx = ADXTracker(ADX_PERIOD)
    /\ broker = PaperBroker(DefaultInitialCapital)
    /\ pc = "running"
    /\ ev = [op |-> "init", n |-> 0]

\* The raw +DM and -DM an update call works with, after its tie-break.
RawMove(a, high, low, close) ==
    LET prev == Get(Seeded(a, close).prev)
    IN  DirectionalMove(high, low, prev.high, prev.low)

CallUpdate(high, low, close) ==
    /\ ev.n < MaxUpdates
    /\ LET r == Update(adx, high, low, close)
           dm == RawMove(adx, high, low, close)
       IN  /\ adx' = r.a
           /\ ev' = [ op |-> "update", n |-> ev.n + 1, high |-> high, low |-> low,
                      close |-> close, ret |-> r.ret,
                      plus_dm |-> dm.plus_dm, minus_dm |-> dm.minus_dm ]
    /\ UNCHANGED <<now, bars, last_completed, broker, pc>>

NextUpdate ==
    \E high \in UpdatePrices, low \in UpdatePrices, close \in UpdatePrices :
        CallUpdate(high, low, close)

SpecADX == InitADX /\ [][NextUpdate]_vars

----------------------------------------------------------------------------
(* Properties of run(), checked under Spec, and of ADXTracker, checked     *)
(* under SpecADX.                                                          *)

\* The leg of a payload that is traded: ATM, or OTM1 when ATM is absent.
PreferredLeg(strikes, kind) ==
    IF strikes[kind].ATM # None THEN strikes[kind].ATM ELSE strikes[kind].OTM1

\* The side of the chain traded for a direction or position side.
LegKind(dir) == IF dir = "LONG" THEN "calls" ELSE "puts"

\* The leg of a lookup that is traded for dir, None when the lookup was not
\* made or did not return status OK.
LegOf(lookup, dir) ==
    IF lookup # None /\ Get(lookup).status = "OK"
    THEN PreferredLeg(Get(lookup), LegKind(dir))
    ELSE None

\* The leg exists and quotes field above zero.
Quoted(leg, field) ==
    leg # None /\ Get(leg)[field] # None /\ Get(Get(leg)[field]) > 0

\* The signal of the bars completed at the end of a step.
SignalOfCompleted(rows, completed) ==
    LET comp == SelectSeq(rows, LAMBDA r : r.datetime <= completed)
    IN  IF Len(comp) >= 4 THEN four_bar_signal(comp) ELSE None

\* C6: on every tick on which a bar completes, enter is called if and only
\* if a signal exists for the completed bars, the indicator value is strictly
\* greater than ADX_THRESHOLD, the account is flat, the chain lookup status
\* is OK and the chosen leg has ask > 0; the leg is the ATM call for LONG or
\* the ATM put for SHORT, falling back to OTM1 only when ATM is absent, and
\* enter is called with side = the signal direction and price = the leg's
\* ask.
C6_EnterCalledExactlyWhen ==
    [][ (ev'.op = "tick" /\ ev'.evaluated) =>
          LET sig == ev'.sig
              strong == Get(ev'.adx_val) > ADX_THRESHOLD * Scale
              flat == broker.position = None
              leg == IF sig = None THEN None ELSE LegOf(ev'.lookup1, Get(sig).dir)
          IN  /\ sig = SignalOfCompleted(bars', Get(last_completed'))
              /\ ev'.adx_val = Some(Get(adx'.prev).adx)
              /\ (ev'.lookup1 # None) <=> (sig # None /\ strong /\ flat)
              /\ (ev'.enter # None) <=>
                    (sig # None /\ strong /\ flat /\ leg # None /\ Quoted(leg, "ask"))
              /\ ev'.enter # None =>
                    /\ Get(ev'.enter).side = Get(sig).dir
                    /\ Get(ev'.enter).price = Get(Get(leg).ask)
                    /\ Get(ev'.enter).contract = Get(leg)
                    /\ Get(leg).side = (IF Get(sig).dir = "LONG" THEN "CE" ELSE "PE")
                    /\ Get(ev'.lookup1)[LegKind(Get(sig).dir)].ATM # None =>
                          Get(leg).strike = Get(ev'.lookup1).atm
                    /\ Len(broker'.log_file) = Len(broker.log_file) + 1
                    /\ LastLine(broker').event =
                          (IF Get(ev'.enter).ret = RetTrue THEN "OPEN" ELSE "REJECTED")
              /\ (ev'.enter = None /\ ev'.exit = None) => broker' = broker
      ]_vars

C6_Witness ==
    /\ ev.op = "tick"
    /\ ev.enter # None
    /\ Get(ev.enter).ret = RetTrue
    /\ Get(ev.enter).side = "LONG"
    /\ Get(ev.lookup1).calls.ATM = None
    /\ Get(ev.enter).contract.strike # Get(ev.lookup1).atm
    /\ broker.position # None

\* C7: on every tick on which a bar completes and the account holds a
\* position, exit is called if and only if the current signal has the
\* direction opposite to the held side and the corresponding leg (call leg
\* for LONG, put leg for SHORT) has bid > 0, with price = that leg's bid; a
\* position is never closed on a tick with no signal or a same-direction
\* signal, so a position opened on a tick is never closed on that tick.
C7_ExitCalledExactlyWhen ==
    [][ (ev'.op = "tick" /\ ev'.evaluated) =>
          LET opened == ev'.enter # None /\ Get(ev'.enter).ret = RetTrue
              held == IF broker.position # None THEN broker.position
                      ELSE IF opened THEN broker'.position ELSE None
          IN  /\ ev'.held = held
              /\ held = None => ev'.exit = None
              /\ held # None =>
                    LET side == Get(held).side
                        leg == LegOf(ev'.lookup2, side)
                        opposite == ev'.sig # None /\ Get(ev'.sig).dir # side
                    IN  /\ ev'.lookup2 # None
                        /\ (ev'.exit # None) <=> (opposite /\ Quoted(leg, "bid"))
                        /\ ev'.exit # None =>
                              /\ Get(ev'.exit).price = Get(Get(leg).bid)
                              /\ Get(ev'.exit).side = side
                              /\ Get(leg).side = (IF side = "LONG" THEN "CE" ELSE "PE")
                              /\ broker'.position = None
                              /\ LogGrewByOne(broker, broker', "CLOSE")
                        /\ ev'.exit = None => broker'.position = held
              /\ opened => (ev'.exit = None /\ broker'.position # None)
              /\ (broker.position # None /\ broker'.position = None) =>
                    /\ ev'.sig # None
                    /\ Get(ev'.sig).dir # Get(broker.position).side
      ]_vars

C7_Witness ==
    /\ ev.op = "tick"
    /\ ev.exit # None
    /\ Get(ev.exit).side = "SHORT"
    /\ Get(ev.sig).dir = "LONG"
    /\ broker.position = None
    /\ LastLine(broker).event = "CLOSE"

\* The lookup was made and is unavailable: its status is not OK, or the leg
\* traded for dir, or that leg's field, is missing.
Unavailable(lookup, dir, field) ==
    /\ lookup # None
    /\ \/ Get(lookup).status # "OK"
       \/ LegOf(lookup, dir) = None
       \/ Get(LegOf(lookup, dir))[field] = None

\* C8: when on a tick the chain lookup is unavailable (status not OK, or the
\* needed leg or its bid/ask missing) the tick is skipped: the account and
\* the audit log are unchanged by that tick and the loop goes on, whether
\* the account is flat or holds a position; no reachable state of the loop
\* is a crashed state.
C8_UnavailableChainSkipsTick ==
    [][ ev'.op = "tick" =>
          /\ pc' # "crashed"
          /\ (ev'.sig # None /\ Unavailable(ev'.lookup1, Get(ev'.sig).dir, "ask")) =>
                (broker' = broker /\ pc' = "running")
          /\ (broker.position # None
                /\ Unavailable(ev'.lookup2, Get(broker.position).side, "bid")) =>
                (broker' = broker /\ pc' = "running")
      ]_vars

\* C9: the indicator is updated exactly once for each completed bar and on
\* no other tick, and the (high, low, close) passed to update on a
\* bar-completion tick are those of the bar that just completed.
C9_UpdatedOncePerCompletedBar ==
    [][ ev'.op = "tick" =>
          LET completes == ev'.opened /\ Len(bars) > 0
              done == bars[Len(bars)]
          IN  /\ (ev'.fed # None) <=> completes
              /\ adx' # adx => completes
              /\ completes =>
                    ev'.fed = Some([ high |-> done.high, low |-> done.low,
                                     close |-> done.close ])
      ]_vars

\* C10: for every (high, low, close) the first update of an unseeded tracker
\* seeds the state (prev close = high = low = close, smoothed true range =
\* 1e-9, smoothed +DM = -DM = 0, trend strength = 0) and returns 0 without
\* applying the true-range, directional-movement and smoothing steps, so the
\* stored state after the first call is exactly the seed state.
C10_FirstUpdateOnlySeeds ==
    [][ (ev'.op = "update" /\ ~adx.ready) =>
          /\ adx'.ready
          /\ adx'.prev = Some([ close |-> ev'.close, high |-> ev'.close,
                                low |-> ev'.close, tr_s |-> TinyTR,
                                pdm_s |-> 0, mdm_s |-> 0, adx |-> 0 ])
          /\ ev'.ret = 0
      ]_vars

\* C11: after any sequence of update calls with arbitrary (high, low, close)
\* no step divides by zero, the smoothed true range stays strictly positive,
\* the smoothed +DM and -DM stay non-negative and every returned trend
\* strength lies in [0, 100].
C11_ADXStaysInRange ==
    ev.op = "update" =>
        /\ adx.ready
        /\ adx.p # 0
        /\ Get(adx.prev).tr_s > 0
        /\ Get(adx.prev).pdm_s >= 0
        /\ Get(adx.prev).mdm_s >= 0
        /\ 0 <= ev.ret /\ ev.ret <= 100 * Scale
        /\ Get(adx.prev).adx = ev.ret

C11_Witness ==
    /\ ev.op = "update"
    /\ 0 < ev.ret /\ ev.ret < 100 * Scale
    /\ Get(adx.prev).tr_s > TinyTR
    /\ Get(adx.prev).pdm_s > 0
    /\ Get(adx.prev).mdm_s > 0
    /\ ev.close > ev.high

\* C12: after the tie-break of update at most one of raw +DM and raw -DM is
\* non-zero, and when the two raw values are equal the tie favours neither:
\* raw +DM is set to zero, so a bar with equal up and down extension adds
\* nothing to the smoothed +DM.
C12_TieFavorsNeither ==
    [][ ev'.op = "update" =>
          LET prev == IF adx.ready THEN Get(adx.prev)
                      ELSE [high |-> ev'.close, low |-> ev'.close, pdm_s |-> 0]
              up == Max2(ev'.high - prev.high, 0)
              down == Max2(prev.low - ev'.low, 0)
          IN  /\ ev'.plus_dm = 0 \/ ev'.minus_dm = 0
              /\ up = down =>
                    /\ ev'.plus_dm = 0
                    /\ Get(adx'.prev).pdm_s = prev.pdm_s - (prev.pdm_s \div adx.p)
      ]_vars

----------------------------------------------------------------------------
(* SpecSignal: four_bar_signal called on every sequence of at most         *)
(* MaxSignalBars bars whose closes come from SignalCloses and whose high   *)
(* and low lie at most one point beyond the close.                         *)

MaxSignalBars == 5

SignalCloses == 1..4
Wicks == { [up |-> 1, down |-> 0], [up |-> 0, down |-> 1] }

InitSignal ==
    /\ now = 0
    /\ bars = <<>>
    /\ last_completed = None
    /\ adx = IdleADX
    /\ broker = PaperBroker(DefaultInitialCapital)
    /\ pc = "running"
    /\ ev = [op |-> "signal", sig |-> four_bar_signal(<<>>)]

\* One more completed bar, and four_bar_signal over the bars so far.
CallFourBarSignal(close, wick) ==
    /\ Len(bars) < MaxSignalBars
    /\ bars' = Append(bars, [ datetime |-> Len(bars) * BarMinutes,
                              open |-> close - wick.down,
                              high |-> close + wick.up,
                              low |-> close - wick.down,
                              close |-> close ])
    /\ ev' = [op |-> "signal", sig |-> four_bar_signal(bars')]
    /\ UNCHANGED <<now, last_completed, adx, broker, pc>>

NextSignal ==
    \E close \in SignalCloses, wick \in Wicks : CallFourBarSignal(close, wick)

SpecSignal == InitSignal /\ [][NextSignal]_vars

\* C13: four_bar_signal returns LONG if and only if there are at least 4
\* bars and the closes of the last 4 are strictly increasing, SHORT if and
\* only if there are at least 4 bars and those closes are strictly
\* decreasing, and no signal otherwise (any pair of equal consecutive closes
\* included); box_high is the maximum high and box_low the minimum low of
\* those 4 bars, and trigger is box_high for LONG and box_low for SHORT.
C13_SignalExactlyWhen ==
    ev.op = "signal" =>
        LET n == Len(bars)
            last4 == (n - 3)..n
            rising == n >= 4 /\ \A i \in (n - 2)..n : bars[i].close > bars[i-1].close
            falling == n >= 4 /\ \A i \in (n - 2)..n : bars[i].close < bars[i-1].close
            tied == n >= 4 /\ \E i \in (n - 2)..n : bars[i].close = bars[i-1].close
        IN  /\ (ev.sig # None /\ Get(ev.sig).dir = "LONG") <=> rising
            /\ (ev.sig # None /\ Get(ev.sig).dir = "SHORT") <=> falling
            /\ (ev.sig = None) <=> (~rising /\ ~falling)
            /\ tied => ev.sig = None
            /\ ev.sig # None =>
                  /\ \E i \in last4 : bars[i].high = Get(ev.sig).box_high
                  /\ \A i \in last4 : bars[i].high <= Get(ev.sig).box_high
                  /\ \E i \in last4 : bars[i].low = Get(ev.sig).box_low
                  /\ \A i \in last4 : bars[i].low >= Get(ev.sig).box_low
                  /\ Get(ev.sig).trigger =
                        (IF rising THEN Get(ev.sig).box_high ELSE Get(ev.sig).box_low)

C13_Witness ==
    /\ ev.op = "signal"
    /\ Len(bars) > 4
    /\ bars[1].close < bars[2].close
    /\ ev.sig # None
    /\ Get(ev.sig).dir = "SHORT"
    /\ Get(ev.sig).trigger = Get(ev.sig).box_low
    /\ Get(ev.sig).box_high > bars[2].close

\* C14: for every sequence of ticks, every bar held by the aggregator, open
\* or completed, satisfies low <= open <= high and low <= close <= high; its
\* open is the first price observed in its bucket and its close the last.
C14_BarsWellFormed ==
    [][ ev'.op = "tick" =>
          /\ \A i \in DOMAIN bars' :
                /\ bars'[i].low <= bars'[i].open /\ bars'[i].open <= bars'[i].high
                /\ bars'[i].low <= bars'[i].close /\ bars'[i].close <= bars'[i].high
          /\ ev'.kind = "quote" =>
                LET n == Len(bars')
                    slot == now' - (now' % BarMinutes)
                    same == Len(bars) > 0 /\ bars[Len(bars)].datetime = slot
                IN  /\ bars'[n].datetime = slot
                    /\ bars'[n].close = ev'.spot
                    /\ same =>
                          /\ n = Len(bars)
                          /\ bars'[n].open = bars[n].open
                          /\ SubSeq(bars', 1, n - 1) = SubSeq(bars, 1, n - 1)
                    /\ ~same =>
                          /\ n = Len(bars) + 1
                          /\ bars'[n].open = ev'.spot
                          /\ SubSeq(bars', 1, n - 1) = bars
      ]_vars

C14_Witness ==
    /\ ev.op = "tick"
    /\ ev.kind = "quote"
    /\ ~ev.opened
    /\ Len(bars) > 2
    /\ bars[Len(bars)].close < bars[Len(bars)].open
    /\ bars[1].close > bars[1].open
    /\ bars[1].high = bars[1].close

\* The bucket starts of rows are strictly increasing.
StrictlyIncreasing(rows) ==
    \A i \in DOMAIN rows : i > 1 => rows[i-1].datetime < rows[i].datetime

\* C15: a tick whose bucket is strictly later than the current bar's bucket
\* completes exactly one bar (the current one) and opens exactly one new bar,
\* however many bucket boundaries lie between them; a tick in the same
\* bucket completes none; the very first tick completes none; the bucket
\* starts of the stored bars are strictly increasing, so the completed bars
\* seen by the detector grow by exactly one bar per bucket transition.
C15_OneBarPerTransition ==
    [][ (ev'.op = "tick" /\ ev'.kind = "quote") =>
          LET n == Len(bars)
              slot == now' - (now' % BarMinutes)
              first == n = 0
              later == n > 0 /\ slot > bars[n].datetime
              same == n > 0 /\ slot = bars[n].datetime
          IN  /\ first \/ later \/ same
              /\ later =>
                    /\ Len(bars') = n + 1
                    /\ SubSeq(bars', 1, n) = bars
                    /\ bars'[n + 1].datetime = slot
                    /\ ev'.evaluated
                    /\ ev'.sig = (IF n >= 4 THEN four_bar_signal(bars) ELSE None)
              /\ same =>
                    /\ Len(bars') = n
                    /\ ~ev'.evaluated
                    /\ last_completed' = last_completed
              /\ first =>
                    /\ Len(bars') = 1
                    /\ bars'[1].datetime = slot
                    /\ ev'.sig = None
              /\ StrictlyIncreasing(bars')
      ]_vars

C15_Witness ==
    /\ ev.op = "tick"
    /\ ev.opened
    /\ Len(bars) > 5
    /\ bars[2].datetime - bars[1].datetime > BarMinutes
    /\ ev.sig # None

\* C16: on a tick where the session is closed (outside session hours, a
\* weekend, or market status reported closed) or no usable spot quote is
\* available the core performs no work: the bars, the indicator state, the
\* account (capital, position, closed_trades) and the audit log are all
\* unchanged by that tick.
C16_IdleTickDoesNothing ==
    [][ ev'.op = "tick" =>
          LET day == (now' \div (24 * 60)) % 7
              clock == now' % (24 * 60)
              open == day < 5 /\ 9 * 60 + 15 <= clock /\ clock <= 15 * 60 + 30
              worked == \/ bars' # bars
                        \/ adx' # adx
                        \/ last_completed' # last_completed
                        \/ broker' # broker
          IN  /\ ev'.kind \in {"closed", "nospot"} => ~worked /\ pc' = pc
              /\ ~open => ~worked
              /\ ev'.kind = "quote" => open
      ]_vars

C16_Witness ==
    /\ ev.op = "tick"
    /\ ev.kind \in {"closed", "nospot"}
    /\ broker.position # None
    /\ Len(bars) > 4
    /\ adx.ready

\* The sum of a sequence of numbers.
RECURSIVE SumSeq(_)
SumSeq(q) == IF Len(q) = 0 THEN 0 ELSE SumSeq(SubSeq(q, 1, Len(q) - 1)) + q[Len(q)]

\* The pnl fields of the CLOSE lines of a log, in order.
ClosePnls(log) ==
    LET closes == SelectSeq(log, LAMBDA e : e.event = "CLOSE")
    IN  [i \in 1..Len(closes) |-> closes[i].pnl]

\* C17: after any sequence of enter and exit calls, successful or rejected,
\* summary().total_pnl is the sum of the pnl of all trades in closed_trades,
\* summary().num_trades is the number of successful exits (the number of
\* CLOSE lines logged), and summary() changes no state and appends no line.
C17_SummaryMatchesTrades ==
    [][ /\ summary(broker').total_pnl =
              SumSeq([i \in 1..Len(broker'.closed_trades) |-> broker'.closed_trades[i].pnl])
        /\ summary(broker').total_pnl = SumSeq(ClosePnls(broker'.log_file))
        /\ summary(broker').num_trades = CountEvents(broker'.log_file, "CLOSE")
        /\ (ev'.op = "exit" /\ ev'.ret # RetFalse) =>
              /\ summary(broker').num_trades = summary(broker).num_trades + 1
              /\ RetNum(summary(broker').total_pnl - summary(broker).total_pnl) = ev'.ret
        /\ (ev'.op \in {"enter", "exit"} /\ ev'.ret \in {RetFalse, RetTrue}) =>
              summary(broker').num_trades = summary(broker).num_trades
        /\ ev'.op = "summary" =>
              /\ broker' = broker
              /\ ev'.ret = summary(broker)
      ]_vars

C17_Witness ==
    /\ ev.op = "summary"
    /\ ev.ret.num_trades = 1
    /\ ev.ret.total_pnl < 0
    /\ Len(broker.log_file) > 2
    /\ LastLine(broker).event = "REJECTED"

\* C18: whenever the account is flat, current capital equals initial capital
\* plus the sum of the realised pnl of all closed trades
\* (summary().current_capital = summary().initial_capital +
\* summary().total_pnl), after any sequence of successful LONG or SHORT
\* enter/exit pairs.
C18_FlatCapitalIsInitialPlusPnl ==
    broker.position = None =>
        summary(broker).current_capital =
            summary(broker).initial_capital + summary(broker).total_pnl

\* C19: in the strategy loop each tick makes at most one call that changes
\* or logs on the account (one enter or one exit, never both), hence appends
\* at most one audit line per tick; the loop never calls enter while a
\* position is open and never calls exit while flat, so the only REJECTED
\* line the loop can produce is the insufficient-capital rejection.
C19_OneAccountCallPerTick ==
    [][ ev'.op = "tick" =>
          LET n == Len(broker.log_file)
              calls == (IF ev'.enter # None THEN 1 ELSE 0)
                         + (IF ev'.exit # None THEN 1 ELSE 0)
          IN  /\ calls <= 1
              /\ Len(broker'.log_file) = n + calls
              /\ SubSeq(broker'.log_file, 1, n) = broker.log_file
              /\ calls = 0 => broker' = broker
              /\ ev'.enter # None => broker.position = None
              /\ ev'.exit # None =>
                    /\ broker.position # None
                    /\ Get(ev'.exit).ret # RetFalse
              /\ (calls = 1 /\ LastLine(broker').event = "REJECTED") =>
                    /\ ev'.enter # None
                    /\ Get(ev'.enter).ret = RetFalse
                    /\ LastLine(broker').message = "Insufficient capital for trade"
                    /\ broker.capital < Get(ev'.enter).price * SlipDen * 50
                    /\ broker'.position = None
      ]_vars

C19_Witness ==
    /\ ev.op = "tick"
    /\ ev.enter # None
    /\ Get(ev.enter).ret = RetFalse
    /\ LastLine(broker).event = "REJECTED"
    /\ Len(broker.log_file) > 1
    /\ Get(ev.enter).side = "SHORT"
    /\ broker.position = None

\* C20: if initial capital is non-negative, every quote price passed to
\* enter and exit is positive and 0 <= slippage < 1, then capital is
\* non-negative in every reachable state of the account, after any sequence
\* of enter and exit calls.
C20_CapitalNonNegative ==
    ( /\ broker.initial_capital >= 0
      /\ \A price \in CallPrices : price > 0
      /\ 0 <= SlipNum /\ SlipNum < SlipDen ) =>
        /\ broker.capital >= 0
        /\ \A i \in DOMAIN broker.log_file : broker.log_file[i].capital >= 0
        /\ \A i \in DOMAIN broker.closed_trades :
              broker.closed_trades[i].capital_post >= 0

C20_Witness ==
    /\ ev.op = "enter"
    /\ ev.ret = RetTrue
    /\ broker.capital = 0
    /\ broker.position # None
    /\ LastLine(broker).capital = 0

----------------------------------------------------------------------------
(* SpecChain: get_strikes_payload called on every snapshot whose spot is   *)
(* one of LookupSpots and whose chain lists any subset of AllStrikes, with *)
(* or without legs at the strike nearest the spot.                         *)

LookupSpots == {0, ChainSpot, ChainSpot + STRIKE_STEP}

LookupSnapshots ==
    { Snapshot(spot, ks, bare, q) :
        spot \in LookupSpots, ks \in SUBSET AllStrikes,
        bare \in {{}, {round_to_step(ChainSpot, STRIKE_STEP)}}, q \in LegQuotes }

InitChain ==
    /\ now = 0
    /\ bars = IdleBars
    /\ last_completed = None
    /\ adx = IdleADX
    /\ broker = PaperBroker(DefaultInitialCapital)
    /\ pc = "running"
    /\ ev = [op |-> "init"]

CallGetStrikesPayload(snapshot) ==
    /\ ev' = [ op |-> "lookup", snapshot |-> snapshot,
               ret |-> get_strikes_payload(snapshot) ]
    /\ UNCHANGED <<now, bars, last_completed, adx, broker, pc>>

NextChain == \E snapshot \in LookupSnapshots : CallGetStrikesPayload(snapshot)

SpecChain == InitChain /\ [][NextChain]_vars

\* The strike a label stands for, counted in steps from atm: calls are in the
\* money below atm, puts above.
LabelSteps == [ATM |-> 0, ITM1 |-> -1, ITM2 |-> -2, OTM1 |-> 1, OTM2 |-> 2]

TargetStrike(kind, label, atm) ==
    IF kind = "calls" THEN atm + LabelSteps[label] * 50
                      ELSE atm - LabelSteps[label] * 50

\* C21: for every chain whose strikes contain the chosen ATM strike, each
\* labelled leg returned by get_strikes_payload is either None or the leg at
\* that label's own target strike: calls ATM/ITM1/ITM2/OTM1/OTM2 at atm,
\* atm-50, atm-100, atm+50, atm+100 and puts at atm, atm+50, atm+100, atm-50,
\* atm-100; in particular the OTM1 fallback of the entry policy is never a
\* leg of a different strike.
C21_LabelsAtOwnStrike ==
    (ev.op = "lookup" /\ ev.ret.status = "OK") =>
        /\ ev.ret.atm \in DOMAIN ev.snapshot.chain
        /\ \A kind \in {"calls", "puts"} :
           \A label \in DOMAIN LabelSteps :
              LET leg == ev.ret[kind][label]
              IN  leg # None =>
                    /\ Get(leg).strike = TargetStrike(kind, label, ev.ret.atm)
                    /\ Get(leg).side = (IF kind = "calls" THEN "CE" ELSE "PE")

====
